---- MODULE Spec2Model ----
(***************************************************************************)
(* octograph: app/octopus_to_influxdb.py (consumption + tariff             *)
(* reconciliation) and app/agile_to_influxdb.py (rate-only storage).       *)
(*                                                                         *)
(* Units.  Instants are counted in half-hours from a reference UTC         *)
(* midnight.  A timestamp string is the pair of the instant it denotes and *)
(* the UTC offset (in half-hours) it is written with: off = 0 is the text  *)
(* "....Z", off = 2 the text "....+01:00".  Two timestamps are the same    *)
(* string iff both components agree.  Consumption is counted in 0.1 kWh,   *)
(* unit prices in 0.01, money in 0.001; standing charges are multiples of  *)
(* 48 money units so that "/ 48" is exact.                                 *)
(***************************************************************************)
EXTENDS Integers, Sequences, FiniteSets, TLC

VARIABLES
    script,         \* which script runs
    pc,             \* the statement of cmd that runs next
    rate_data,      \* cmd's rate_data: the tariff of each series
    e_consumption,  \* cmd's e_consumption
    g_consumption,  \* cmd's g_consumption
    agile_rates,    \* agile_to_influxdb's agile_rates
    retrieved,      \* the resources retrieve_paginated_data has returned
    called,         \* the series of the latest store_series or active_rate_field call
    influx,         \* the batches handed to influx.write_points, in order
    error,          \* the exception that ended the run, if any
    measurement,    \* the argument of a lone active_rate_field call
    band            \* and its result

vars == <<script, pc, rate_data, e_consumption, g_consumption, agile_rates,
          retrieved, called, influx, error, measurement, band>>

\* ------------------------------------------------------------- bounds
\* longest list handed to store_series (consumption batch, rate schedule)
MaxLen == 2
\* longest list a retrieval returns in a whole run of cmd
MaxRunLen == 1
\* days of interval starts given to a lone active_rate_field call
MaxDays == 2

\* 48 half-hour reads per day ("/ 48  # 30 minute reads")
HalfHoursPerDay == 48

None == "None"

\* ------------------------------------------------------------- timestamps
Timestamp(i, o) == [inst |-> i, off |-> o]

\* maya.parse(text): the instant the text denotes, whatever offset it is
\* written with
parse(ts) == ts.inst

\* MayaDT.iso8601(): the instant written in UTC with the "Z" suffix
iso8601(i) == Timestamp(i, 0)

\* UTC offset, in half-hours, of the zones a configuration may name
ZoneOffset(zone) ==
    CASE zone = "UTC" -> 0
      [] zone = "Etc/GMT-1" -> 2

\* ------------------------------------------------------------- dicts
\* {point[key]: point['value_inc_vat'] for point in data}: a later point
\* with the same key string replaces an earlier one
RateDict(data, key) ==
    [k \in {data[i][key] : i \in DOMAIN data} |->
        LET last == CHOOSE i \in DOMAIN data :
                        /\ data[i][key] = k
                        /\ \A j \in DOMAIN data : data[j][key] = k => j <= i
        IN  data[last].value_inc_vat]

\* dict.get(k, default)
Get(dict, k, default) == IF k \in DOMAIN dict THEN dict[k] ELSE default

\* dict.get(k, None) as an optional price: <<v>> for the price v, <<>> for None
GetOrNone(dict, k) == IF k \in DOMAIN dict THEN <<dict[k]>> ELSE <<>>

\* ------------------------------------------------------------- octopus_to_influxdb.store_series
agile_rates_to(agile_data) == RateDict(agile_data, "valid_to")

agile_rates_from(agile_data) == RateDict(agile_data, "valid_from")

\* The low band of the local calendar day of instant `at`, in zone `zone`:
\* maya.when(<local date of at>T<clock>, timezone=zone)
LocalDayInstant(at, clock, zone) ==
    LET local == at + ZoneOffset(zone)
        day   == local \div HalfHoursPerDay
    IN  day * HalfHoursPerDay + clock - ZoneOffset(zone)

\* The closed form of the resolver with `<=` in place of `<` at the band's end
active_rate_field_closed(series, rates, m) ==
    IF series = "gas" THEN "unit_rate"
    ELSE IF rates.unit_rate_low_zone = None THEN "unit_rate_high"
    ELSE LET low_zone  == rates.unit_rate_low_zone
             at        == parse(m.interval_start)
             low_start == LocalDayInstant(at, rates.unit_rate_low_start, low_zone)
             low_end   == LocalDayInstant(at, rates.unit_rate_low_end, low_zone)
         IN  IF low_start > low_end THEN "ValueError"
             ELSE IF low_start <= at /\ at <= low_end THEN "unit_rate_low"
             ELSE "unit_rate_high"

\* active_rate_field(measurement): the key of the static unit price, or
\* "ValueError" when maya.MayaInterval(low_start, low_end) refuses an
\* interval that ends before it starts
active_rate_field(series, rates, m) ==
    IF series = "gas" THEN "unit_rate"
    ELSE IF rates.unit_rate_low_zone = None THEN "unit_rate_high"
    ELSE LET low_zone  == rates.unit_rate_low_zone
             at        == parse(m.interval_start)
             low_start == LocalDayInstant(at, rates.unit_rate_low_start, low_zone)
             low_end   == LocalDayInstant(at, rates.unit_rate_low_end, low_zone)
         IN  IF low_start > low_end THEN "ValueError"
             ELSE IF low_start <= at /\ at < low_end THEN "unit_rate_low"
             ELSE "unit_rate_high"

\* rate_data.get('agile_unit_rates', []): the gas tariff carries no schedule
agile_unit_rates(rates) ==
    IF "agile_unit_rates" \in DOMAIN rates THEN rates.agile_unit_rates ELSE <<>>

\* fields_for_measurement with the high unit price charged whatever the band
fields_for_measurement_high(series, rates, m) ==
    LET consumption     == m.consumption
        rate            == active_rate_field(series, rates, m)
        rate_cost       == IF series = "gas" THEN rates.unit_rate
                           ELSE rates.unit_rate_high
        cost            == consumption * rate_cost
        standing_charge == rates.standing_charge \div HalfHoursPerDay
        agile_data      == agile_unit_rates(rates)
    IN  IF agile_data # <<>>
        THEN LET agile_standing_charge ==
                     rates.agile_standing_charge \div HalfHoursPerDay
                 agile_unit_rate ==
                     Get(agile_rates_to(agile_data),
                         iso8601(parse(m.interval_end)), rates[rate])
                 agile_cost == agile_unit_rate * consumption
             IN  [consumption |-> consumption,
                  cost |-> cost,
                  total_cost |-> cost + standing_charge,
                  agile_rate |-> agile_unit_rate,
                  agile_cost |-> agile_cost,
                  agile_total_cost |-> agile_cost + agile_standing_charge]
        ELSE [consumption |-> consumption,
              cost |-> cost,
              total_cost |-> cost + standing_charge]

\* fields_for_measurement(measurement); used only when the band resolves
fields_for_measurement(series, rates, m) ==
    LET consumption     == m.consumption
        rate            == active_rate_field(series, rates, m)
        rate_cost       == rates[rate]
        cost            == consumption * rate_cost
        standing_charge == rates.standing_charge \div HalfHoursPerDay
        agile_data      == agile_unit_rates(rates)
    IN  IF agile_data # <<>>
        THEN LET agile_standing_charge ==
                     rates.agile_standing_charge \div HalfHoursPerDay
                 agile_unit_rate ==
                     Get(agile_rates_to(agile_data),
                         iso8601(parse(m.interval_end)), rates[rate])
                 agile_cost == agile_unit_rate * consumption
             IN  [consumption |-> consumption,
                  cost |-> cost,
                  total_cost |-> cost + standing_charge,
                  agile_rate |-> agile_unit_rate,
                  agile_cost |-> agile_cost,
                  agile_total_cost |-> agile_cost + agile_standing_charge]
        ELSE [consumption |-> consumption,
              cost |-> cost,
              total_cost |-> cost + standing_charge]

\* tags_for_measurement(measurement): time_of_day is the UTC clock time of
\* the interval's end, as a half-hour of the day
tags_for_measurement(series, rates, m) ==
    [active_rate |-> active_rate_field(series, rates, m),
     time_of_day |-> parse(m.interval_end) % HalfHoursPerDay]

\* one element of the `measurements` comprehension
point_for_measurement(series, rates, m) ==
    [measurement |-> series,
     tags        |-> tags_for_measurement(series, rates, m),
     time        |-> m.interval_end,
     fields      |-> fields_for_measurement(series, rates, m)]

\* A record whose end is not its start plus one half-hour
MalformedInterval(m) == parse(m.interval_end) - parse(m.interval_start) # 1

\* A schedule entry with valid_to <= valid_from
MalformedRate(p) == parse(p.valid_to) <= parse(p.valid_from)

\* store_series with the batch refused when a record is malformed
store_series_validating(series, metrics, rates) ==
    IF \E i \in DOMAIN metrics : MalformedInterval(metrics[i])
    THEN [raised |-> "ClickException", written |-> <<>>]
    ELSE IF \E i \in DOMAIN metrics :
                active_rate_field(series, rates, metrics[i]) = "ValueError"
    THEN [raised |-> "ValueError", written |-> <<>>]
    ELSE [raised  |-> "none",
          written |-> << [i \in DOMAIN metrics |->
                            point_for_measurement(series, rates, metrics[i])] >>]

\* store_series(connection, series, metrics, rate_data): what it raises and
\* the batches it hands to connection.write_points.  An exception while the
\* `measurements` list is built leaves write_points uncalled.
store_series(series, metrics, rates) ==
    IF \E i \in DOMAIN metrics :
            active_rate_field(series, rates, metrics[i]) = "ValueError"
    THEN [raised |-> "ValueError", written |-> <<>>]
    ELSE [raised  |-> "none",
          written |-> << [i \in DOMAIN metrics |->
                            point_for_measurement(series, rates, metrics[i])] >>]

\* ------------------------------------------------------------- agile_to_influxdb.store_series
agile_rates_with_from_dates(rates) == RateDict(rates, "valid_from")

\* fields_for_measurement(measurement) of the rate-only script
agile_fields_for_measurement(rates, m) ==
    LET valid_from_iso == iso8601(parse(m.valid_from))
        valid_to_iso   == iso8601(parse(m.valid_to))
    IN  [agile_rate_prev |->
            GetOrNone(agile_rates_with_from_dates(rates), valid_from_iso),
         agile_rate_next |->
            GetOrNone(agile_rates_with_from_dates(rates), valid_to_iso)]

agile_point_for_measurement(series, rates, m) ==
    [measurement |-> series,
     tags        |-> <<>>,
     time        |-> m.valid_to,
     fields      |-> agile_fields_for_measurement(rates, m)]

\* the rate-only store_series without its guard on an empty schedule
agile_store_series_unguarded(series, rates) ==
    [raised  |-> "none",
     written |-> << [i \in DOMAIN rates |->
                        agile_point_for_measurement(series, rates, rates[i])] >>]

\* store_series(connection, series, agile_rates) of the rate-only script
agile_store_series(series, rates) ==
    IF rates = <<>>
    THEN [raised |-> "ClickException", written |-> <<>>]
    ELSE [raised  |-> "none",
          written |-> << [i \in DOMAIN rates |->
                            agile_point_for_measurement(series, rates, rates[i])] >>]

\* ------------------------------------------------------------- inputs
\* the offsets a timestamp is written with: "Z" and "+01:00"
Offsets == {0, 2}

SeqsUpTo(S, n) == UNION {[1..k -> S] : k \in 0..n}

Consumptions == {5, 12}

\* consumption records: 30-minute ones and malformed 60-minute ones
Intervals ==
    {[interval_start |-> Timestamp(s, o),
      interval_end   |-> Timestamp(s + d, o),
      consumption    |-> c] :
        s \in {0, 1}, d \in {1, 2}, o \in Offsets, c \in Consumptions}

\* schedule entries: 30-minute ones and malformed empty ones; the price of a
\* period is fixed by the period
RatePoints ==
    {[valid_from    |-> Timestamp(f, o),
      valid_to      |-> Timestamp(f + d, o),
      value_inc_vat |-> 7 + f] :
        f \in {0, 1}, d \in {0, 1}, o \in Offsets}

\* a schedule prices a period once: no two entries start, or end, at the
\* same instant
Schedules(n) ==
    {r \in SeqsUpTo(RatePoints, n) :
        \A i, j \in DOMAIN r :
            i # j => /\ parse(r[i].valid_from) # parse(r[j].valid_from)
                     /\ parse(r[i].valid_to) # parse(r[j].valid_to)}

StandingCharges == {0, 24000}

Zones == {"UTC", "Etc/GMT-1"}

\* rate_data['electricity'] as cmd builds it, before the schedule is fetched
ElectricityTariff(sc, zone, low_start, low_end) ==
    [standing_charge       |-> sc,
     unit_rate_high        |-> 30,
     unit_rate_low         |-> 10,
     unit_rate_low_start   |-> low_start,
     unit_rate_low_end     |-> low_end,
     unit_rate_low_zone    |-> zone,
     agile_standing_charge |-> 9600,
     agile_unit_rates      |-> <<>>]

\* rate_data['gas']
GasTariff(sc) == [standing_charge |-> sc, unit_rate |-> 3]

\* the fallbacks of config.get: no zone, low band 00:00 to 00:00
NoZoneTariff(sc) == ElectricityTariff(sc, None, 0, 0)

ElectricityTariffs(clocks) ==
    {NoZoneTariff(sc) : sc \in StandingCharges}
    \cup {ElectricityTariff(sc, z, a, b) :
            sc \in StandingCharges, z \in Zones, a \in clocks, b \in clocks}

DayNightTariff == ElectricityTariff(24000, "UTC", 0, 1)

NoError == [type |-> "none", at |-> "none"]

Raised(type, at) == [type |-> type, at |-> at]

\* ------------------------------------------------------------- octopus_to_influxdb.cmd
\* records a retrieval returns during a whole run
RunIntervals ==
    {[interval_start |-> Timestamp(s, 2),
      interval_end   |-> Timestamp(s + 1, 2),
      consumption    |-> 5] : s \in {0, 1}}

RunRatePoints ==
    {[valid_from    |-> Timestamp(f, 0),
      valid_to      |-> Timestamp(f + 1, 0),
      value_inc_vat |-> 7 + f] : f \in {0, 1}}

RunSchedules ==
    {r \in SeqsUpTo(RunRatePoints, MaxRunLen) :
        \A i, j \in DOMAIN r : i # j => r[i] # r[j]}

RunTariffs ==
    {NoZoneTariff(0), DayNightTariff, ElectricityTariff(24000, "UTC", 1, 0)}

\* retrieve_paginated_data raises (raise_for_status, a refused connection)
RetrievalFails ==
    /\ pc' = "aborted"
    /\ error' = Raised("HTTPError", "retrieve_paginated_data")
    /\ UNCHANGED <<script, rate_data, e_consumption, g_consumption,
                   agile_rates, retrieved, called, influx, measurement, band>>

\* store_series(influx, s, metrics, rate_data[s]) and what follows it
Store(s, metrics, next) ==
    LET r == store_series(s, metrics, rate_data[s])
    IN  /\ called' = s
        /\ influx' = influx \o r.written
        /\ IF r.raised = "none"
           THEN pc' = next /\ error' = error
           ELSE pc' = "aborted" /\ error' = Raised(r.raised, "store_series")
        /\ UNCHANGED <<script, rate_data, e_consumption, g_consumption,
                       agile_rates, retrieved, measurement, band>>

RetrieveElectricity ==
    /\ script = "octopus_to_influxdb"
    /\ pc = "retrieve_electricity"
    /\ \/ /\ \E r \in SeqsUpTo(RunIntervals, MaxRunLen) : e_consumption' = r
          /\ retrieved' = retrieved \cup {"electricity"}
          /\ pc' = "retrieve_agile"
          /\ UNCHANGED <<script, rate_data, g_consumption, agile_rates,
                         called, influx, error, measurement, band>>
       \/ RetrievalFails

RetrieveAgile ==
    /\ script = "octopus_to_influxdb"
    /\ pc = "retrieve_agile"
    /\ \/ /\ \E r \in RunSchedules :
                rate_data' =
                    [rate_data EXCEPT !.electricity.agile_unit_rates = r]
          /\ retrieved' = retrieved \cup {"agile"}
          /\ pc' = "store_electricity"
          /\ UNCHANGED <<script, e_consumption, g_consumption, agile_rates,
                         called, influx, error, measurement, band>>
       \/ RetrievalFails

StoreElectricity ==
    /\ script = "octopus_to_influxdb"
    /\ pc = "store_electricity"
    /\ Store("electricity", e_consumption, "retrieve_gas")

\* the gas retrieval with the run's earlier write undone when it fails
RetrieveGas_rollback ==
    /\ script = "octopus_to_influxdb"
    /\ pc = "retrieve_gas"
    /\ \/ /\ \E r \in SeqsUpTo(RunIntervals, MaxRunLen) : g_consumption' = r
          /\ retrieved' = retrieved \cup {"gas"}
          /\ pc' = "store_gas"
          /\ UNCHANGED <<script, rate_data, e_consumption, agile_rates,
                         called, influx, error, measurement, band>>
       \/ /\ pc' = "aborted"
          /\ error' = Raised("HTTPError", "retrieve_paginated_data")
          /\ influx' = <<>>
          /\ UNCHANGED <<script, rate_data, e_consumption, g_consumption,
                         agile_rates, retrieved, called, measurement, band>>

RetrieveGas ==
    /\ script = "octopus_to_influxdb"
    /\ pc = "retrieve_gas"
    /\ \/ /\ \E r \in SeqsUpTo(RunIntervals, MaxRunLen) : g_consumption' = r
          /\ retrieved' = retrieved \cup {"gas"}
          /\ pc' = "store_gas"
          /\ UNCHANGED <<script, rate_data, e_consumption, agile_rates,
                         called, influx, error, measurement, band>>
       \/ RetrievalFails

StoreGas ==
    /\ script = "octopus_to_influxdb"
    /\ pc = "store_gas"
    /\ Store("gas", g_consumption, "done")

\* ------------------------------------------------------------- agile_to_influxdb.cmd
AgileRetrieve ==
    /\ script = "agile_to_influxdb"
    /\ pc = "retrieve_agile"
    /\ \/ /\ \E r \in RunSchedules : agile_rates' = r
          /\ retrieved' = retrieved \cup {"agile"}
          /\ pc' = "store_agile"
          /\ UNCHANGED <<script, rate_data, e_consumption, g_consumption,
                         called, influx, error, measurement, band>>
       \/ RetrievalFails

AgileStore ==
    /\ script = "agile_to_influxdb"
    /\ pc = "store_agile"
    /\ LET r == agile_store_series("electricity", agile_rates)
       IN  /\ called' = "electricity"
           /\ influx' = influx \o r.written
           /\ IF r.raised = "none"
              THEN pc' = "done" /\ error' = error
              ELSE pc' = "aborted" /\ error' = Raised(r.raised, "store_series")
    /\ UNCHANGED <<script, rate_data, e_consumption, g_consumption,
                   agile_rates, retrieved, measurement, band>>

\* ------------------------------------------------------------- a run of either script
Init ==
    /\ \/ script = "octopus_to_influxdb" /\ pc = "retrieve_electricity"
       \/ script = "agile_to_influxdb" /\ pc = "retrieve_agile"
    /\ \E t \in RunTariffs :
            rate_data = [electricity |-> t, gas |-> GasTariff(0)]
    /\ e_consumption = <<>>
    /\ g_consumption = <<>>
    /\ agile_rates = <<>>
    /\ retrieved = {}
    /\ called = None
    /\ influx = <<>>
    /\ error = NoError
    /\ measurement = None
    /\ band = None

Next ==
    \/ RetrieveElectricity
    \/ RetrieveAgile
    \/ StoreElectricity
    \/ RetrieveGas
    \/ StoreGas
    \/ AgileRetrieve
    \/ AgileStore

Spec == Init /\ [][Next]_vars

\* ------------------------------------------------------------- store_series on its own
\* Either store_series applied once to a batch: electricity under every
\* tariff with no schedule and under every tariff of one standing charge
\* with every schedule, gas, and the rate-only script's schedule.
InitStore ==
    /\ \/ /\ script = "octopus_to_influxdb"
          /\ pc = "store_electricity"
          /\ agile_rates = <<>>
          /\ e_consumption \in SeqsUpTo(Intervals, MaxLen)
          /\ g_consumption = <<>>
          /\ \/ \E t \in ElectricityTariffs({0, 1}) :
                    rate_data = [electricity |-> t, gas |-> GasTariff(0)]
             \/ \E t \in ElectricityTariffs({0, 1}),
                   r \in Schedules(MaxLen) \ {<<>>} :
                    /\ t.standing_charge = 24000
                    /\ rate_data =
                          [electricity |-> [t EXCEPT !.agile_unit_rates = r],
                           gas |-> GasTariff(0)]
       \/ /\ script = "octopus_to_influxdb"
          /\ pc = "store_gas"
          /\ agile_rates = <<>>
          /\ e_consumption = <<>>
          /\ g_consumption \in SeqsUpTo(Intervals, MaxLen)
          /\ \E sc \in StandingCharges :
                rate_data = [electricity |-> NoZoneTariff(0),
                             gas |-> GasTariff(sc)]
       \/ /\ script = "agile_to_influxdb"
          /\ pc = "store_agile"
          /\ agile_rates \in Schedules(MaxLen)
          /\ e_consumption = <<>>
          /\ g_consumption = <<>>
          /\ rate_data = [electricity |-> NoZoneTariff(0), gas |-> GasTariff(0)]
    /\ retrieved = {}
    /\ called = None
    /\ influx = <<>>
    /\ error = NoError
    /\ measurement = None
    /\ band = None

NextStore ==
    \/ StoreElectricity
    \/ StoreGas
    \/ AgileStore

SpecStore == InitStore /\ [][NextStore]_vars

\* ------------------------------------------------------------- active_rate_field on its own
\* every half-hour start of the first MaxDays days
ResolverIntervals ==
    {[interval_start |-> Timestamp(s, 0),
      interval_end   |-> Timestamp(s + 1, 0),
      consumption    |-> 5] : s \in 0..(MaxDays * HalfHoursPerDay - 1)}

\* 00:00, 00:30, 07:00, 23:30
ResolverClocks == {0, 1, 14, 47}

InitResolver ==
    /\ script = "octopus_to_influxdb"
    /\ pc = "active_rate_field"
    /\ called \in {"electricity", "gas"}
    /\ \E t \in ElectricityTariffs(ResolverClocks) :
            /\ t.standing_charge = 0
            /\ rate_data = [electricity |-> t, gas |-> GasTariff(0)]
    /\ called = "gas" => rate_data.electricity = NoZoneTariff(0)
    /\ measurement \in ResolverIntervals
    /\ band = None
    /\ e_consumption = <<>>
    /\ g_consumption = <<>>
    /\ agile_rates = <<>>
    /\ retrieved = {}
    /\ influx = <<>>
    /\ error = NoError

ActiveRateField ==
    /\ pc = "active_rate_field"
    /\ band' = active_rate_field(called, rate_data[called], measurement)
    /\ pc' = "resolved"
    /\ UNCHANGED <<script, rate_data, e_consumption, g_consumption,
                   agile_rates, retrieved, called, influx, error, measurement>>

NextResolver == ActiveRateField

SpecResolver == InitResolver /\ [][NextResolver]_vars

\* ------------------------------------------------------------- what the claims speak of
Octopus == script = "octopus_to_influxdb"

RateOnly == script = "agile_to_influxdb"

\* the arguments of the latest store_series call of octopus_to_influxdb
Metrics == IF called = "gas" THEN g_consumption ELSE e_consumption

Rates == rate_data[called]

\* the latest store_series call returned, having handed over one batch
StoreReturned == called # None /\ error.at # "store_series"

Batch == influx[Len(influx)]

\* the low band is configured to end before it starts
InvertedBand(rates) ==
    /\ rates.unit_rate_low_zone # None
    /\ rates.unit_rate_low_start > rates.unit_rate_low_end

\* some record of the batch given to the latest call is malformed
HasMalformed ==
    IF RateOnly
    THEN \E k \in DOMAIN agile_rates : MalformedRate(agile_rates[k])
    ELSE \/ \E i \in DOMAIN Metrics : MalformedInterval(Metrics[i])
         \/ \E k \in DOMAIN agile_unit_rates(Rates) :
                MalformedRate(agile_unit_rates(Rates)[k])

\* ------------------------------------------------------------- C1
\* C1: in rate-only mode an empty schedule makes store_series fail with an
\* error reported to the caller and write_points is never invoked; a
\* non-empty schedule raises no such error and write_points is invoked
\* exactly once.
C1_EmptyScheduleRejected ==
    (RateOnly /\ called # None) =>
        IF agile_rates = <<>>
        THEN error = Raised("ClickException", "store_series") /\ influx = <<>>
        ELSE error = NoError /\ Len(influx) = 1

C1_Witness ==
    /\ RateOnly
    /\ called # None
    /\ agile_rates = <<>>
    /\ error.type = "ClickException"
    /\ influx = <<>>

\* ------------------------------------------------------------- C2
\* C2: with a non-empty dynamic schedule, every consumption interval's
\* agile_rate is the value_inc_vat of the RatePoint whose valid_to is the
\* interval's end instant if there is one, and otherwise the static unit
\* price resolved for that interval; a miss on one interval never raises and
\* leaves the agile fields of the other intervals what they are without it.
C2_AgileRateOrStaticFallback ==
    (Octopus /\ StoreReturned /\ called = "electricity"
        /\ agile_unit_rates(Rates) # <<>>) =>
        /\ error = NoError
        /\ Len(influx) = 1
        /\ \A i \in DOMAIN Metrics :
            LET m        == Metrics[i]
                schedule == agile_unit_rates(Rates)
                hits     == {k \in DOMAIN schedule :
                                parse(schedule[k].valid_to) = parse(m.interval_end)}
                alone    == store_series("electricity", <<m>>, Rates).written[1][1]
            IN  /\ i \in DOMAIN Batch
                /\ IF hits # {}
                   THEN \E k \in hits :
                            Batch[i].fields.agile_rate = schedule[k].value_inc_vat
                   ELSE Batch[i].fields.agile_rate =
                            Rates[Batch[i].tags.active_rate]
                /\ Batch[i].fields = alone.fields

\* ------------------------------------------------------------- C3
\* C3: in rate-only mode, for every RatePoint {valid_from = T0, valid_to = T1,
\* value = V} the point emitted with time T1 carries V as agile_rate_prev and
\* the point emitted with time T0 carries V as agile_rate_next.
C3_PrevAndNextRates ==
    (RateOnly /\ StoreReturned) =>
        \A k \in DOMAIN agile_rates :
            \A j \in DOMAIN Batch :
                /\ parse(Batch[j].time) = parse(agile_rates[k].valid_to) =>
                      Batch[j].fields.agile_rate_prev
                          = <<agile_rates[k].value_inc_vat>>
                /\ parse(Batch[j].time) = parse(agile_rates[k].valid_from) =>
                      Batch[j].fields.agile_rate_next
                          = <<agile_rates[k].value_inc_vat>>

\* ------------------------------------------------------------- C4
\* C4: active_rate_field for electricity is total: for every interval start
\* and every low_zone with any pair of clock times low_start, low_end it
\* returns one of the two bands and raises no error.
C4_ResolverTotal ==
    (pc = "resolved" /\ called = "electricity"
        /\ rate_data.electricity.unit_rate_low_zone # None) =>
        band \in {"unit_rate_low", "unit_rate_high"}

\* ------------------------------------------------------------- C5
\* C5: for every emitted consumption point, cost is consumption times the
\* unit price of the band written to the active_rate tag, and total_cost is
\* cost plus standing_charge / 48 (stated without the division: 48 times the
\* difference is the standing charge).
C5_CostOfResolvedBand ==
    (Octopus /\ StoreReturned) =>
        \A i \in DOMAIN Batch :
            LET point == Batch[i]
            IN  /\ point.tags.active_rate \in
                      (IF called = "gas" THEN {"unit_rate"}
                       ELSE {"unit_rate_low", "unit_rate_high"})
                /\ point.fields.cost =
                      Metrics[i].consumption * Rates[point.tags.active_rate]
                /\ HalfHoursPerDay * (point.fields.total_cost - point.fields.cost)
                      = Rates.standing_charge

\* consumption 0.5 at the high rate 0.30 with standing charge 24.0 gives
\* cost 0.15 and total_cost 0.65; and a point charged at the low rate
C5_Witness ==
    /\ Octopus
    /\ StoreReturned
    /\ called = "electricity"
    /\ Rates.standing_charge = 24000
    /\ \E i \in DOMAIN Batch :
            /\ Batch[i].tags.active_rate = "unit_rate_high"
            /\ Metrics[i].consumption = 5
            /\ Batch[i].fields.cost = 150
            /\ Batch[i].fields.total_cost = 650
    /\ \E i \in DOMAIN Batch : Batch[i].tags.active_rate = "unit_rate_low"

\* ------------------------------------------------------------- C6
\* C6 as claimed: a batch holding a malformed record (a consumption interval
\* that is not 30 minutes long, a schedule entry with valid_to <= valid_from)
\* is rejected whole: an error is reported and no points reach the store.
C6_MalformedBatchRejected ==
    (called # None /\ HasMalformed) => (error.type # "none" /\ influx = <<>>)

\* C6 as amended: a malformed record is not detected.  In rate-only mode
\* the schedule holding it is written as one batch with a point per entry;
\* in consumption mode the batch holding it is written as one batch with a
\* point per interval, or the call raises the ValueError of a low band
\* configured to end before it starts, the only error there is.
C6_MalformedBatchStored ==
    (called # None /\ HasMalformed) =>
        IF RateOnly
        THEN /\ error = NoError
             /\ Len(influx) = 1
             /\ Len(Batch) = Len(agile_rates)
        ELSE \/ /\ error = NoError
                /\ Len(influx) = 1
                /\ Len(Batch) = Len(Metrics)
             \/ /\ error = Raised("ValueError", "store_series")
                /\ influx = <<>>
                /\ called = "electricity"
                /\ InvertedBand(Rates)
                /\ Metrics # <<>>

C6_Witness ==
    /\ Octopus
    /\ called # None
    /\ \E i \in DOMAIN Metrics : MalformedInterval(Metrics[i])
    /\ error = NoError
    /\ Len(influx) = 1
    /\ Len(Batch) = Len(Metrics)

\* ------------------------------------------------------------- C7
\* C7: for any list of n >= 0 consumption intervals store_series hands the
\* store exactly one batch of exactly n points, the i-th built from the i-th
\* interval with its time the interval's end; an empty list gives an empty
\* batch and no error.
C7_OnePointPerInterval ==
    (Octopus /\ called # None) =>
        /\ error = NoError
        /\ Len(influx) = 1
        /\ Len(Batch) = Len(Metrics)
        /\ \A i \in DOMAIN Metrics :
                /\ Batch[i].time = Metrics[i].interval_end
                /\ Batch[i].fields.consumption = Metrics[i].consumption
                /\ Batch[i].measurement = called

\* ------------------------------------------------------------- C8
\* C8: the index keys every RatePoint by the canonical form of its boundary
\* instant, so a lookup for an instant finds the RatePoint whose boundary
\* denotes that instant, whatever offsets the two timestamps are written with.
C8_IndexKeyedByCanonicalInstant ==
    called # None =>
        LET schedule == IF RateOnly THEN agile_rates ELSE agile_unit_rates(Rates)
            index    == IF RateOnly THEN agile_rates_with_from_dates(schedule)
                        ELSE agile_rates_to(schedule)
            boundary(point) == IF RateOnly THEN point.valid_from
                               ELSE point.valid_to
        IN  /\ \A key \in DOMAIN index : key = iso8601(parse(key))
            /\ \A k \in DOMAIN schedule :
                \A o \in Offsets :
                    LET lookup == Timestamp(parse(boundary(schedule[k])), o)
                    IN  GetOrNone(index, iso8601(parse(lookup)))
                            = <<schedule[k].value_inc_vat>>

\* ------------------------------------------------------------- C9
\* C9 as claimed: every retrieval of a run (electricity consumption, agile
\* schedule, gas consumption) completes before any point is written, so a
\* retrieval failure at any stage leaves the store without a write.
C9_AllRetrievedBeforeAnyWrite ==
    Octopus =>
        /\ influx # <<>> => retrieved = {"electricity", "agile", "gas"}
        /\ error.at = "retrieve_paginated_data" => influx = <<>>

\* C9 as amended: the retrievals a series needs complete before that series
\* is written (electricity consumption and the agile schedule before the
\* electricity batch, gas consumption before the gas batch), and the
\* electricity batch is written before gas consumption is retrieved: a
\* failure retrieving electricity consumption or the agile schedule leaves
\* the store without a write, a failure retrieving gas consumption leaves
\* the electricity batch, and only it, written.
C9_RetrievedBeforeOwnWrite ==
    Octopus =>
        /\ Len(influx) >= 1 => {"electricity", "agile"} \subseteq retrieved
        /\ Len(influx) >= 2 => "gas" \in retrieved
        /\ Len(influx) <= 2
        /\ error.at = "retrieve_paginated_data" =>
              IF {"electricity", "agile"} \subseteq retrieved
              THEN /\ "gas" \notin retrieved
                   /\ Len(influx) = 1
                   /\ Len(influx[1]) = Len(e_consumption)
                   /\ \A i \in DOMAIN influx[1] :
                          influx[1][i].measurement = "electricity"
              ELSE influx = <<>>

\* the gas retrieval fails after the electricity batch was written
C9_Witness ==
    /\ Octopus
    /\ error = Raised("HTTPError", "retrieve_paginated_data")
    /\ retrieved = {"electricity", "agile"}
    /\ Len(influx) = 1
    /\ influx[1] # <<>>

\* ------------------------------------------------------------- C10
\* the instant of the local calendar day of `at` in `zone` whose local clock
\* time is `clock`
BandInstant(at, clock, zone) ==
    CHOOSE x \in (at - HalfHoursPerDay)..(at + HalfHoursPerDay) :
        /\ (x + ZoneOffset(zone)) \div HalfHoursPerDay
              = (at + ZoneOffset(zone)) \div HalfHoursPerDay
        /\ (x + ZoneOffset(zone)) % HalfHoursPerDay = clock

\* C10 as claimed, where the resolver returns a band (C4 is about where it
\* raises): with low_zone set, a start at the low band's start instant of its
\* local day resolves to low, a start at the band's end instant to high, a
\* start strictly between to low; with low_zone unset every electricity
\* interval resolves to high; every gas interval to the flat unit_rate.
C10_HalfOpenBand ==
    (pc = "resolved" /\ band # "ValueError") =>
        IF called = "gas" THEN band = "unit_rate"
        ELSE IF Rates.unit_rate_low_zone = None THEN band = "unit_rate_high"
        ELSE LET at == parse(measurement.interval_start)
                 lo == BandInstant(at, Rates.unit_rate_low_start,
                                   Rates.unit_rate_low_zone)
                 hi == BandInstant(at, Rates.unit_rate_low_end,
                                   Rates.unit_rate_low_zone)
             IN  /\ at = lo => band = "unit_rate_low"
                 /\ at = hi => band = "unit_rate_high"
                 /\ (lo < at /\ at < hi) => band = "unit_rate_low"

\* C10 as amended: the three cases hold of a low band that starts before it
\* ends; a low band that starts when it ends (the configuration's fallback,
\* 00:00 to 00:00) is empty and every interval resolves to high, the one
\* starting at that instant too.
C10_HalfOpenNonEmptyBand ==
    pc = "resolved" =>
        IF called = "gas" THEN band = "unit_rate"
        ELSE IF Rates.unit_rate_low_zone = None THEN band = "unit_rate_high"
        ELSE LET at == parse(measurement.interval_start)
                 lo == BandInstant(at, Rates.unit_rate_low_start,
                                   Rates.unit_rate_low_zone)
                 hi == BandInstant(at, Rates.unit_rate_low_end,
                                   Rates.unit_rate_low_zone)
             IN  /\ lo < hi =>
                      /\ at = lo => band = "unit_rate_low"
                      /\ at = hi => band = "unit_rate_high"
                      /\ (lo < at /\ at < hi) => band = "unit_rate_low"
                 /\ lo = hi => band = "unit_rate_high"

\* an interval starting at the end instant of a non-empty low band, in a
\* zone east of UTC
C10_Witness ==
    /\ pc = "resolved"
    /\ called = "electricity"
    /\ Rates.unit_rate_low_zone = "Etc/GMT-1"
    /\ Rates.unit_rate_low_start < Rates.unit_rate_low_end
    /\ parse(measurement.interval_start)
          = BandInstant(parse(measurement.interval_start),
                        Rates.unit_rate_low_end, Rates.unit_rate_low_zone)
    /\ band = "unit_rate_high"

====
